---- MODULE Spec2Model ----
(***************************************************************************)
(* State-machine model of clouds::GranularProcessor                        *)
(* (supercell/dsp/granular_processor.cc): the per-block entry point        *)
(* Process, the buffer/workspace manager Prepare and the tagged-block      *)
(* persistence protocol PreparePersistentData / GetPersistentData /        *)
(* LoadPersistentData.                                                     *)
(*                                                                         *)
(* Scaling.  The two memory regions handed to Init are modelled as arrays  *)
(* of 32-bit words (LargeWords, SmallWords); a word holds 0 (cleared) or 1 *)
(* (audio).  Smoothed coefficients (ONE_POLE) are quantised to the levels  *)
(* 0..SmoothSteps.  The synthesis engines are collaborators: the model     *)
(* keeps which of them the last partitioning pass initialised, and the     *)
(* wet signal they produce is one of a few block-sized outcomes.           *)
(*                                                                         *)
(* Threads.  Process is the audio callback and may run between any two     *)
(* steps of LoadPersistentData; every other operation runs on the thread   *)
(* that also runs the load, hence only while no load is in progress.       *)
(***************************************************************************)
EXTENDS Integers, Sequences, FiniteSets, TLC

\* ------------------------------------------------------------------ bounds
LargeWords == 2      \* words in the large region given to Init
SmallWords == 1      \* words in the small region given to Init
MaxSize == 2         \* largest block size passed to Process
SmoothSteps == 1     \* quantisation levels of a one-pole smoother
RingSamples == 2     \* samples a ring buffer holds before its head wraps
MaxLevel == 1        \* largest feedback or reverb amount, in steps
MaxPitch == 20       \* largest pitch tried, in units of 1 / PitchUnit

\* --------------------------------------------------------------- constants
PLAYBACK_MODE_GRANULAR == 0
PLAYBACK_MODE_STRETCH == 1
PLAYBACK_MODE_LOOPING_DELAY == 2
PLAYBACK_MODE_SPECTRAL == 3
PLAYBACK_MODE_SPECTRAL_CLOUD == 4
PLAYBACK_MODE_OLIVERB == 5
PLAYBACK_MODE_RESONESTOR == 6
PLAYBACK_MODE_KAMMERL == 7
PLAYBACK_MODE_LAST == 8

PlaybackModes == PLAYBACK_MODE_GRANULAR .. PLAYBACK_MODE_KAMMERL

BytesPerWord == 4            \* sizeof(uint32_t)
kDownsamplingFactor == 2
PitchUnit == 20              \* pitch values are multiples of 1 / PitchUnit
TagStat == 1952543827        \* FourCC<'S','t','a','t'>
TagBuff == 1717990754        \* FourCC<'b','u','f','f'>
SizeofPersistentState == 12  \* int32_t write_head[2]; uint8_t quality, spectral

VARIABLES
  bypass_, silence_, reset_buffers_, reverb_dry_signal_,
  playback_mode_, previous_playback_mode_,
  num_channels_, low_fidelity_,
  parameters_,          \* [freeze |-> BOOLEAN]
  persistent_state_,    \* [write_head |-> <<h0, h1>>, quality, spectral]
  buffer_8_,            \* write head of the 8-bit ring buffer of channel 0, 1
  buffer_16_,           \* write head of the 16-bit ring buffer of channel 0, 1
  buffer_,              \* contents of the two regions, as words
  mute_in_fade_, mute_out_fade_, freeze_lp_,
  fb_,                  \* TRUE once a block of output has been fed back
  filters_,             \* "reset" | "run"   (fb_filter_, lp_filter_, hp_filter_)
  pitch_shifter_,       \* "clear" | "run"
  engines_,             \* what the last partitioning pass initialised
  prepare_path_,        \* branch taken by the last Prepare
  flash,                \* the word stream written by the last save
  saved,                \* mode and write heads when flash was written
  data_,                \* the word stream given to the load in progress
  entry_silence,        \* silence_ as the load in progress found it
  entry_channels,       \* num_channels_ as the load in progress found it
  load_pc, load_i, load_data, load_ret, block, copied,
  input, output,        \* the frames of the last Process call
  trace_                \* what the last Process call computed and called

cfgVars == <<bypass_, silence_, reset_buffers_, reverb_dry_signal_,
             playback_mode_,
             previous_playback_mode_, num_channels_, low_fidelity_,
             parameters_>>
ringVars == <<buffer_8_, buffer_16_, buffer_>>
dspVars == <<mute_in_fade_, mute_out_fade_, freeze_lp_, fb_, filters_,
             pitch_shifter_>>
storeVars == <<persistent_state_, flash, saved>>
loadVars == <<data_, entry_silence, entry_channels, load_pc, load_i,
             load_data, load_ret,
              block, copied>>
obsVars == <<prepare_path_, input, output, trace_>>
vars == <<cfgVars, ringVars, dspVars, engines_, storeVars, loadVars, obsVars>>

\* Everything Process may touch besides its output block.
processorState == <<cfgVars, ringVars, dspVars, engines_, persistent_state_>>

\* ----------------------------------------------------------------- helpers
\* The input blocks tried: n frames, all different, left # right, none silent.
Blocks == {[i \in 1..n |-> <<i, 0 - i>>] : n \in 1..MaxSize}
NoBlock == <<>>
NoPath == [branch |-> "none", priming |-> "none", regions |-> <<>>]

\* The controls of parameters_ that the caller refreshes before each block:
\* feedback and reverb in steps of 1 / MaxLevel, stereo_spread in halves,
\* pitch in steps of 1 / PitchUnit, and whether the Kammerl engine reports
\* slice playback as active.
Levels == 0..MaxLevel
PitchValues == (0 - MaxPitch)..MaxPitch
DefaultControls ==
  [feedback |-> 0, reverb |-> 0, stereo_spread |-> 1, pitch |-> 0,
   slice |-> FALSE]

NotSet == 0 - 1

\* trace_ when the last call was not a Process call that ran the chain.
NoTrace ==
  [parameters |-> DefaultControls, calls |-> <<>>, feedback |-> 0,
   fb_gain |-> 0, in_ |-> <<>>, injected |-> <<>>,
   pitch_shift_amount |-> NotSet, dry_wet |-> NotSet]

ZeroBlock(size) == [i \in 1..size |-> <<0, 0>>]

\* buffer_size_[0], buffer_size_[1] in bytes.
buffer_size_ == [i \in 0..1 |->
  IF i = 0 THEN LargeWords * BytesPerWord ELSE SmallWords * BytesPerWord]

resolution == IF low_fidelity_ THEN 8 ELSE 16

quality ==
  (IF num_channels_ = 1 THEN 1 ELSE 0) + (IF low_fidelity_ THEN 2 ELSE 0)

IsSpectral(mode) ==
  mode = PLAYBACK_MODE_SPECTRAL \/ mode = PLAYBACK_MODE_SPECTRAL_CLOUD

\* ONE_POLE(out, in, coefficient): one step towards the target.
ONE_POLE(level, target) ==
  IF level < target THEN level + 1
  ELSE IF level > target THEN level - 1 ELSE level


StructuralModes == {PLAYBACK_MODE_SPECTRAL, PLAYBACK_MODE_SPECTRAL_CLOUD,
                    PLAYBACK_MODE_RESONESTOR, PLAYBACK_MODE_OLIVERB}

\* Modes whose input is recorded into the ring buffers by ProcessGranular.
RecordingModes_with_resonestor ==
  PlaybackModes \ {PLAYBACK_MODE_SPECTRAL, PLAYBACK_MODE_SPECTRAL_CLOUD}

RecordingModes == PlaybackModes \ {PLAYBACK_MODE_SPECTRAL,
                                   PLAYBACK_MODE_SPECTRAL_CLOUD,
                                   PLAYBACK_MODE_RESONESTOR}

\* Modes that run the shared feedback path of Process.
SharedFeedbackModes == PlaybackModes \ {PLAYBACK_MODE_OLIVERB,
                                        PLAYBACK_MODE_RESONESTOR,
                                        PLAYBACK_MODE_KAMMERL,
                                        PLAYBACK_MODE_SPECTRAL_CLOUD}

\* buffer_size[i] of Prepare: bytes of sample storage of channel i.
SampleStorageSize(i) ==
  IF num_channels_ = 1
    THEN (IF i = 0 THEN buffer_size_[0] ELSE 0)
    ELSE buffer_size_[1]

SampleStorageWords(i) == SampleStorageSize(i) \div BytesPerWord

\* Words of the sample storage of channel i that hold audio once n samples
\* have been recorded: the model does not resolve where in the storage a
\* sample lands.
TouchedWords(i, n) ==
  IF n > 0 THEN 1..SampleStorageWords(i) ELSE {}

\* AudioBuffer::WriteFade: the head advances by n samples round the ring; the
\* samples are stored only when recording (play).
WriteFadeHead(head, n) == (head + n) % RingSamples

WriteFadeWords(i, words, n, play) ==
  IF play
    THEN [w \in 1..Len(words) |->
            IF w \in TouchedWords(i, n) THEN 1 ELSE words[w]]
    ELSE words

\* AudioBuffer::Init: clears the sample storage of channel i.
ClearedWords(i, words) ==
  [w \in 1..Len(words) |-> IF w <= SampleStorageWords(i) THEN 0 ELSE words[w]]

\* The engines a partitioning pass initialises (Prepare).
EnginesFor(mode) ==
  [reverb |-> IF mode = PLAYBACK_MODE_OLIVERB THEN "oliverb_" ELSE "reverb_",
   engine |-> IF mode = PLAYBACK_MODE_SPECTRAL THEN "phase_vocoder_frame"
              ELSE IF mode = PLAYBACK_MODE_SPECTRAL_CLOUD
                THEN "phase_vocoder_cloud"
              ELSE IF mode = PLAYBACK_MODE_RESONESTOR THEN "resonestor_"
              ELSE "players"]

NoEngines == [reverb |-> "none", engine |-> "none"]

PrimingFor(mode) ==
  IF IsSpectral(mode) THEN "phase_vocoder_"
  ELSE IF mode = PLAYBACK_MODE_STRETCH \/ mode = PLAYBACK_MODE_OLIVERB
    THEN "correlator_"
  ELSE "none"

\* --------------------------------------------------------------------- Init
\* The processor object is zero-initialised storage on which Init has run.
InitAssignments ==
  /\ num_channels_' = 2
  /\ low_fidelity_' = FALSE
  /\ bypass_' = FALSE
  /\ reverb_dry_signal_' = TRUE
  /\ filters_' = "reset"
  /\ previous_playback_mode_' = PLAYBACK_MODE_LAST
  /\ reset_buffers_' = TRUE
  /\ mute_in_fade_' = 0
  /\ mute_out_fade_' = 0

Init_as_prepared ==
  /\ num_channels_ = 2
  /\ low_fidelity_ = FALSE
  /\ bypass_ = FALSE
  /\ reverb_dry_signal_ = TRUE
  /\ filters_ = "reset"
  /\ previous_playback_mode_ = PLAYBACK_MODE_GRANULAR
  /\ reset_buffers_ = FALSE
  /\ mute_in_fade_ = 0
  /\ mute_out_fade_ = 0
  /\ silence_ = FALSE
  /\ playback_mode_ = PLAYBACK_MODE_GRANULAR
  /\ parameters_ = [freeze |-> FALSE]
  /\ persistent_state_ = [write_head |-> <<0, 0>>, quality |-> 0,
                          spectral |-> 0]
  /\ buffer_8_ = [i \in 0..1 |-> 0]
  /\ buffer_16_ = [i \in 0..1 |-> 0]
  /\ buffer_ = [i \in 0..1 |->
                 [w \in 1..(buffer_size_[i] \div BytesPerWord) |-> 0]]
  /\ freeze_lp_ = 0
  /\ fb_ = FALSE
  /\ pitch_shifter_ = "clear"
  /\ engines_ = NoEngines
  /\ prepare_path_ = NoPath
  /\ flash = <<>>
  /\ saved = [mode |-> PLAYBACK_MODE_LAST, head |-> <<0, 0>>]
  /\ data_ = <<>>
  /\ entry_silence = FALSE
  /\ entry_channels = 0
  /\ load_pc = "idle"
  /\ load_i = 0
  /\ load_data = 1
  /\ load_ret = FALSE
  /\ block = <<>>
  /\ copied = {}
  /\ input = NoBlock
  /\ output = NoBlock
  /\ trace_ = NoTrace

Init ==
  /\ num_channels_ = 2
  /\ low_fidelity_ = FALSE
  /\ bypass_ = FALSE
  /\ reverb_dry_signal_ = TRUE
  /\ filters_ = "reset"
  /\ previous_playback_mode_ = PLAYBACK_MODE_LAST
  /\ reset_buffers_ = TRUE
  /\ mute_in_fade_ = 0
  /\ mute_out_fade_ = 0
  /\ silence_ = FALSE
  /\ playback_mode_ = PLAYBACK_MODE_GRANULAR
  /\ parameters_ = [freeze |-> FALSE]
  /\ persistent_state_ = [write_head |-> <<0, 0>>, quality |-> 0,
                          spectral |-> 0]
  /\ buffer_8_ = [i \in 0..1 |-> 0]
  /\ buffer_16_ = [i \in 0..1 |-> 0]
  /\ buffer_ = [i \in 0..1 |->
                 [w \in 1..(buffer_size_[i] \div BytesPerWord) |-> 0]]
  /\ freeze_lp_ = 0
  /\ fb_ = FALSE
  /\ pitch_shifter_ = "clear"
  /\ engines_ = NoEngines
  /\ prepare_path_ = NoPath
  /\ flash = <<>>
  /\ saved = [mode |-> PLAYBACK_MODE_LAST, head |-> <<0, 0>>]
  /\ data_ = <<>>
  /\ entry_silence = FALSE
  /\ entry_channels = 0
  /\ load_pc = "idle"
  /\ load_i = 0
  /\ load_data = 1
  /\ load_ret = FALSE
  /\ block = <<>>
  /\ copied = {}
  /\ input = NoBlock
  /\ output = NoBlock
  /\ trace_ = NoTrace

MainThread == load_pc = "idle"

\* input and output describe the last Process call only, prepare_path_ the
\* Prepare of the last call (Prepare itself, or the load that ran it).
NoIO == input' = NoBlock /\ output' = NoBlock /\ trace_' = NoTrace

Quiet == NoIO /\ prepare_path_' = NoPath

\* ------------------------------------------------------------------ setters
set_bypass(b) ==
  /\ MainThread
  /\ bypass_' = b
  /\ Quiet
  /\ UNCHANGED <<reverb_dry_signal_, silence_, reset_buffers_, playback_mode_,
                 previous_playback_mode_, num_channels_, low_fidelity_,
                 parameters_, ringVars, dspVars, engines_, storeVars,
                 loadVars>>

set_silence(b) ==
  /\ MainThread
  /\ silence_' = b
  /\ Quiet
  /\ UNCHANGED <<reverb_dry_signal_, bypass_, reset_buffers_, playback_mode_,
                 previous_playback_mode_, num_channels_, low_fidelity_,
                 parameters_, ringVars, dspVars, engines_, storeVars,
                 loadVars>>

set_reverb_dry_signal(b) ==
  /\ MainThread
  /\ reverb_dry_signal_' = b
  /\ Quiet
  /\ UNCHANGED <<bypass_, silence_, reset_buffers_, playback_mode_,
                 previous_playback_mode_, num_channels_, low_fidelity_,
                 parameters_, ringVars, dspVars, engines_, storeVars,
                 loadVars>>

set_playback_mode(m) ==
  /\ MainThread
  /\ playback_mode_' = m
  /\ Quiet
  /\ UNCHANGED <<reverb_dry_signal_, bypass_, silence_, reset_buffers_,
                 previous_playback_mode_, num_channels_, low_fidelity_,
                 parameters_, ringVars, dspVars, engines_, storeVars,
                 loadVars>>

set_freeze(b) ==
  /\ MainThread
  /\ parameters_' = [parameters_ EXCEPT !.freeze = b]
  /\ Quiet
  /\ UNCHANGED <<reverb_dry_signal_, bypass_, silence_, reset_buffers_,
                 playback_mode_, previous_playback_mode_, num_channels_,
                 low_fidelity_, ringVars, dspVars, engines_, storeVars,
                 loadVars>>

\* set_quality(q): set_num_channels(q & 1 ? 1 : 2); set_low_fidelity(q >> 1).
QualityChannels(q) == IF q % 2 = 1 THEN 1 ELSE 2
QualityLowFidelity(q) == (q \div 2) # 0

set_quality_assignments(q) ==
  /\ num_channels_' = QualityChannels(q)
  /\ low_fidelity_' = QualityLowFidelity(q)
  /\ reset_buffers_' = (reset_buffers_
                          \/ num_channels_ # QualityChannels(q)
                          \/ low_fidelity_ # QualityLowFidelity(q))

set_quality(q) ==
  /\ MainThread
  /\ set_quality_assignments(q)
  /\ Quiet
  /\ UNCHANGED <<reverb_dry_signal_, bypass_, silence_, playback_mode_,
                 previous_playback_mode_, parameters_, ringVars, dspVars,
                 engines_, storeVars, loadVars>>

\* ------------------------------------------------------------------ Prepare
playback_mode_changed == previous_playback_mode_ # playback_mode_

benign_change_without_kammerl ==
  /\ playback_mode_ \notin StructuralModes \cup {PLAYBACK_MODE_KAMMERL}
  /\ previous_playback_mode_ \notin StructuralModes
  /\ previous_playback_mode_ # PLAYBACK_MODE_LAST

benign_change ==
  /\ playback_mode_ \notin StructuralModes
  /\ previous_playback_mode_ \notin StructuralModes
  /\ previous_playback_mode_ # PLAYBACK_MODE_LAST

BenignPath_without_change == ~reset_buffers_ /\ benign_change

BenignPath_unless_frozen ==
  ~reset_buffers_ /\ playback_mode_changed /\ benign_change
    /\ ~parameters_.freeze

BenignPath == ~reset_buffers_ /\ playback_mode_changed /\ benign_change

StructuralPath_without_reset == playback_mode_changed /\ ~benign_change

StructuralPath == reset_buffers_ \/ (playback_mode_changed /\ ~benign_change)

\* buffer[i] and buffer_size[i] of Prepare: the sample storage of channel i,
\* as an offset and a size in bytes within supplied region base.
SampleStorage(i) ==
  [base |-> i, start |-> 0, size |-> SampleStorageSize(i)]

Workspace_at_region_start ==
  IF num_channels_ = 1
    THEN [base |-> 1, start |-> 0, size |-> buffer_size_[1]]
    ELSE [base |-> 0, start |-> 0,
          size |-> buffer_size_[0] - buffer_size_[1]]

\* workspace and workspace_size of Prepare.
Workspace ==
  IF num_channels_ = 1
    THEN [base |-> 1, start |-> 0, size |-> buffer_size_[1]]
    ELSE [base |-> 0, start |-> SampleStorage(0).start + SampleStorage(0).size,
          size |-> buffer_size_[0] - buffer_size_[1]]

\* BufferAllocator::Allocate<T>(n): the next bytes of the workspace, used
\* bytes of it being taken already.
Allocate(used, bytes) ==
  [base |-> Workspace.base, start |-> Workspace.start + used, size |-> bytes]

kMaxWSOLASize == 4096
SizeofFloat == 4
SizeofUint16 == 2

\* The sub-regions the structural path of Prepare hands to the collaborators,
\* in the order of the calls.  pitch_shifter_.Init gets a pointer and no
\* size: its region is entered with the one 16-bit word the pointer is to.
HandedRegions ==
  LET diffuser == Allocate(0, 2048 * SizeofFloat)
      reverb_buffer == Allocate(diffuser.size, 16384 * SizeofUint16)
      correlator_block_size == (kMaxWSOLASize \div 32) + 2
      correlator_data == Allocate(diffuser.size + reverb_buffer.size,
                                  correlator_block_size * 3 * BytesPerWord)
      Hand(to, i, region) == [to |-> <<to, i>>, base |-> region.base,
                              start |-> region.start, size |-> region.size]
      storage ==
        IF IsSpectral(playback_mode_)
          THEN [i \in 1..num_channels_ |->
                  Hand("phase_vocoder_", i - 1, SampleStorage(i - 1))]
        ELSE IF playback_mode_ = PLAYBACK_MODE_RESONESTOR
          THEN <<Hand("resonestor_", 0, SampleStorage(0))>>
        ELSE [i \in 1..num_channels_ |->
                Hand(IF resolution = 8 THEN "buffer_8_" ELSE "buffer_16_",
                     i - 1, SampleStorage(i - 1))]
  IN <<Hand("diffuser_", 0, diffuser),
       Hand(IF playback_mode_ = PLAYBACK_MODE_OLIVERB THEN "oliverb_"
            ELSE "reverb_", 0, reverb_buffer),
       Hand("correlator_", 0, correlator_data),
       Hand("pitch_shifter_", 0,
            [correlator_data EXCEPT !.size = SizeofUint16])>>
     \o storage

\* The ring buffers Prepare initialises on the structural path.
RingInit(ring, on) ==
  IF StructuralPath /\ playback_mode_ \in RecordingModes /\ on
    THEN [i \in 0..1 |-> IF i < num_channels_ THEN 0 ELSE ring[i]]
    ELSE ring

PrepareAssignments_always_unfreezes ==
  /\ filters_' = IF BenignPath THEN "reset" ELSE filters_
  /\ pitch_shifter_' = IF BenignPath \/ StructuralPath THEN "clear"
                       ELSE pitch_shifter_
  /\ parameters_' = IF StructuralPath \/ BenignPath
                      THEN [parameters_ EXCEPT !.freeze = FALSE]
                      ELSE parameters_
  /\ engines_' = IF StructuralPath THEN EnginesFor(playback_mode_)
                 ELSE engines_
  /\ buffer_8_' = RingInit(buffer_8_, resolution = 8)
  /\ buffer_16_' = RingInit(buffer_16_, resolution # 8)
  /\ buffer_' = IF StructuralPath /\ playback_mode_ \in RecordingModes
                  THEN [i \in 0..1 |->
                         IF i < num_channels_ THEN ClearedWords(i, buffer_[i])
                         ELSE buffer_[i]]
                  ELSE buffer_
  /\ reset_buffers_' = IF StructuralPath THEN FALSE ELSE reset_buffers_
  /\ previous_playback_mode_' = IF BenignPath \/ StructuralPath
                                  THEN playback_mode_
                                  ELSE previous_playback_mode_
  /\ prepare_path_' = [branch |-> IF BenignPath THEN "benign"
                                  ELSE IF StructuralPath THEN "structural"
                                  ELSE "unchanged",
                       priming |-> PrimingFor(playback_mode_),
                       regions |-> IF StructuralPath THEN HandedRegions
                                   ELSE <<>>]
  /\ UNCHANGED <<reverb_dry_signal_, bypass_, silence_, playback_mode_,
                 num_channels_, low_fidelity_, mute_in_fade_, mute_out_fade_,
                 freeze_lp_, fb_>>
PrepareAssignments ==
  /\ filters_' = IF BenignPath THEN "reset" ELSE filters_
  /\ pitch_shifter_' = IF BenignPath \/ StructuralPath THEN "clear"
                       ELSE pitch_shifter_
  /\ parameters_' = IF StructuralPath
                      THEN [parameters_ EXCEPT !.freeze = FALSE]
                      ELSE parameters_
  /\ engines_' = IF StructuralPath THEN EnginesFor(playback_mode_)
                 ELSE engines_
  /\ buffer_8_' = RingInit(buffer_8_, resolution = 8)
  /\ buffer_16_' = RingInit(buffer_16_, resolution # 8)
  /\ buffer_' = IF StructuralPath /\ playback_mode_ \in RecordingModes
                  THEN [i \in 0..1 |->
                         IF i < num_channels_ THEN ClearedWords(i, buffer_[i])
                         ELSE buffer_[i]]
                  ELSE buffer_
  /\ reset_buffers_' = IF StructuralPath THEN FALSE ELSE reset_buffers_
  /\ previous_playback_mode_' = IF BenignPath \/ StructuralPath
                                  THEN playback_mode_
                                  ELSE previous_playback_mode_
  /\ prepare_path_' = [branch |-> IF BenignPath THEN "benign"
                                  ELSE IF StructuralPath THEN "structural"
                                  ELSE "unchanged",
                       priming |-> PrimingFor(playback_mode_),
                       regions |-> IF StructuralPath THEN HandedRegions
                                   ELSE <<>>]
  /\ UNCHANGED <<reverb_dry_signal_, bypass_, silence_, playback_mode_,
                 num_channels_, low_fidelity_, mute_in_fade_, mute_out_fade_,
                 freeze_lp_, fb_>>

Prepare ==
  /\ MainThread
  /\ PrepareAssignments
  /\ NoIO
  /\ UNCHANGED <<storeVars, loadVars>>


\* ------------------------------------------------------------------ Process
\* A block the signal chain can produce that is neither the input nor silence.
Processed(in) == [i \in 1..Len(in) |-> <<in[i][1] + 1, in[i][2] + 1>>]

\* The wet/dry mix of the signal chain, as far as this model resolves it:
\* all dry, all muted, or something else.
DspOutcomes(in) == {in, ZeroBlock(Len(in)), Processed(in)}

Gated_no_reset ==
  silence_ \/ previous_playback_mode_ # playback_mode_

Gated ==
  silence_ \/ reset_buffers_ \/ previous_playback_mode_ # playback_mode_

\* ProcessGranular, first part: WriteFade on the active ring buffers.
ProcessGranularRing(ring, on, n) ==
  IF playback_mode_ \in RecordingModes /\ on
    THEN [i \in 0..1 |->
           IF i < num_channels_ THEN WriteFadeHead(ring[i], n) ELSE ring[i]]
    ELSE ring

ActiveRing == IF resolution = 8 THEN buffer_8_ ELSE buffer_16_

\* Scales of the fixed-point values below: the input after mute and mixdown
\* is in units of 1 / InScale, the feedback gain in units of 1 / GainScale.
InScale == 2 * SmoothSteps
GainScale == MaxLevel * SmoothSteps

\* The input frames as ProcessGranular gets them before feedback: mute-in
\* fade applied, and in mono both channels replaced by their crossfade.
Conditioned(in, fade, xfade) ==
  [i \in 1..Len(in) |->
     IF num_channels_ = 1
       THEN LET m == in[i][1] * fade * (2 - xfade) + in[i][2] * fade * xfade
            IN <<m, m>>
       ELSE <<in[i][1] * fade * 2, in[i][2] * fade * 2>>]

InputCrossfade(ctl) ==
  IF playback_mode_ = PLAYBACK_MODE_LOOPING_DELAY
     \/ playback_mode_ = PLAYBACK_MODE_STRETCH
    THEN ctl.stereo_spread ELSE 1

FeedbackAmount_shared_only(ctl) ==
  IF playback_mode_ \in SharedFeedbackModes THEN ctl.feedback ELSE 0

\* The feedback amount of the block.
FeedbackAmount(ctl) ==
  IF playback_mode_ \in SharedFeedbackModes THEN ctl.feedback
  ELSE IF playback_mode_ = PLAYBACK_MODE_KAMMERL /\ ctl.slice
    THEN ctl.reverb
  ELSE 0

FeedbackGain_ignoring_freeze(feedback, freeze_lp) == feedback * SmoothSteps

\* fb_gain = feedback * (1 - freeze_lp_), in units of 1 / GainScale.
FeedbackGain(feedback, freeze_lp) == feedback * (SmoothSteps - freeze_lp)

SoftLimitCeiling == 4 * InScale * GainScale * (MaxSize + 1)

SoftLimit(x) ==
  IF x > SoftLimitCeiling THEN SoftLimitCeiling
  ELSE IF x < 0 - SoftLimitCeiling THEN 0 - SoftLimitCeiling
  ELSE x

\* in += fb_gain * (SoftLimit(fb_gain * 1.4 * fb + in) - in), the result in
\* units of 1 / (InScale * GainScale * GainScale).
Inject(x, fb_gain, fb) ==
  x * GainScale * GainScale
    + fb_gain * (SoftLimit(fb_gain * fb * InScale + x * GainScale)
                   - x * GainScale)

Injected(frames, fb_gain) ==
  LET fb == IF fb_ THEN 1 ELSE 0
  IN [i \in 1..Len(frames) |->
        <<Inject(frames[i][1], fb_gain, fb),
          Inject(frames[i][2], fb_gain, fb)>>]

\* The wet amount given to oliverb_.set_pitch_shift_amount, in units of
\* 1 / slew.
OliverbPitchShiftAmount(x) ==
  LET limit == (7 * PitchUnit) \div 10
      slew == (4 * PitchUnit) \div 10
  IN IF x < 0 - limit THEN slew
     ELSE IF x < 0 - limit + slew THEN slew - (x + limit)
     ELSE IF x < limit - slew THEN 0
     ELSE IF x < limit THEN slew + (x - limit)
     ELSE slew

PitchShifterDryWet_falling_only(x) ==
  LET limit == (7 * PitchUnit) \div 10
      slew == (4 * PitchUnit) \div 10
  IN IF x < 0 - limit THEN slew
     ELSE IF x < 0 - limit + slew THEN slew - (x + limit)
     ELSE IF x < limit THEN 0
     ELSE slew

\* The wet amount given to pitch_shifter_.set_dry_wet outside
\* SPECTRAL_CLOUD, in units of 1 / slew.
PitchShifterDryWet(x) ==
  LET limit == (7 * PitchUnit) \div 10
      slew == (4 * PitchUnit) \div 10
  IN IF x < 0 - limit THEN slew
     ELSE IF x < 0 - limit + slew THEN slew - (x + limit)
     ELSE IF x < limit - slew THEN 0
     ELSE IF x < limit THEN slew + (x - limit)
     ELSE slew

FullWet == (4 * PitchUnit) \div 10

\* The collaborators ProcessGranular calls, in order.
ProcessGranularCalls(play) ==
  LET ring == IF resolution = 8 THEN "buffer_8_" ELSE "buffer_16_"
      write == IF play THEN "WriteFade" ELSE "WriteFade_play_through"
  IN (IF playback_mode_ \in RecordingModes
        THEN [i \in 1..num_channels_ |-> <<ring, i - 1, write>>]
        ELSE <<>>)
     \o (IF playback_mode_ = PLAYBACK_MODE_GRANULAR
           THEN << <<"player_", 0, "Play">> >>
         ELSE IF playback_mode_ = PLAYBACK_MODE_STRETCH
           THEN << <<"ws_player_", 0, "Play">> >>
         ELSE IF playback_mode_ = PLAYBACK_MODE_LOOPING_DELAY
           THEN << <<"looper_", 0, "Play">> >>
         ELSE IF IsSpectral(playback_mode_)
           THEN << <<"phase_vocoder_", 0, "Process">> >>
         ELSE IF playback_mode_ = PLAYBACK_MODE_OLIVERB
           THEN << <<"ws_player_", 0, "Play">>,
                   <<"oliverb_", 0, "Process">> >>
         ELSE IF playback_mode_ = PLAYBACK_MODE_RESONESTOR
           THEN << <<"resonestor_", 0, "Process">> >>
         ELSE << <<"kammerl_", 0, "Play">> >>)

GenericReverbModes_with_kammerl ==
  PlaybackModes \ {PLAYBACK_MODE_OLIVERB, PLAYBACK_MODE_RESONESTOR}

GenericReverbModes == PlaybackModes \ {PLAYBACK_MODE_OLIVERB,
                                       PLAYBACK_MODE_RESONESTOR,
                                       PLAYBACK_MODE_KAMMERL}

DiffuserModes == {PLAYBACK_MODE_GRANULAR, PLAYBACK_MODE_STRETCH,
                  PLAYBACK_MODE_LOOPING_DELAY}

\* The collaborators a non-gated Process calls, in order.
ProcessCalls(play, shared, shifts, filtered) ==
  (IF shared THEN << <<"fb_filter_", 0, "Process">> >> ELSE <<>>)
  \o (IF low_fidelity_ THEN << <<"src_down_", 0, "Process">> >> ELSE <<>>)
  \o ProcessGranularCalls(play)
  \o (IF low_fidelity_ THEN << <<"src_up_", 0, "Process">> >> ELSE <<>>)
  \o (IF playback_mode_ \in DiffuserModes
        THEN << <<"diffuser_", 0, "Process">> >> ELSE <<>>)
  \o (IF shifts THEN << <<"pitch_shifter_", 0, "Process">> >> ELSE <<>>)
  \o (IF filtered
        THEN << <<"lp_filter_", 0, "Process">>,
                <<"hp_filter_", 0, "Process">> >>
        ELSE <<>>)
  \o (IF ~reverb_dry_signal_ /\ playback_mode_ \in GenericReverbModes
        THEN << <<"reverb_", 0, "Process">> >> ELSE <<>>)
  \o (IF playback_mode_ # PLAYBACK_MODE_RESONESTOR
        THEN << <<"dry_wet_", 0, "crossfade">> >> ELSE <<>>)
  \o (IF reverb_dry_signal_ /\ playback_mode_ \in GenericReverbModes
        THEN << <<"reverb_", 0, "Process">> >> ELSE <<>>)

ProcessRun(in, synchronized, ctl, out) ==
  LET size == Len(in)
      n == IF low_fidelity_ THEN size \div kDownsamplingFactor ELSE size
      play == \/ ~parameters_.freeze
              \/ playback_mode_ = PLAYBACK_MODE_OLIVERB
              \/ playback_mode_ = PLAYBACK_MODE_KAMMERL
      shared == playback_mode_ \in SharedFeedbackModes
      shifts == \/ /\ playback_mode_ = PLAYBACK_MODE_LOOPING_DELAY
                   /\ (~parameters_.freeze \/ synchronized)
                \/ playback_mode_ = PLAYBACK_MODE_SPECTRAL_CLOUD
      filtered == \/ playback_mode_ = PLAYBACK_MODE_LOOPING_DELAY
                  \/ playback_mode_ = PLAYBACK_MODE_STRETCH
      in_ == Conditioned(in, mute_in_fade_', InputCrossfade(ctl))
      feedback == FeedbackAmount(ctl)
      fb_gain == FeedbackGain(feedback, freeze_lp_')
  IN
  /\ mute_in_fade_' = ONE_POLE(mute_in_fade_, SmoothSteps)
  /\ freeze_lp_' = IF shared
                     THEN ONE_POLE(freeze_lp_,
                            IF parameters_.freeze THEN SmoothSteps ELSE 0)
                     ELSE freeze_lp_
  /\ filters_' = IF shared \/ filtered THEN "run" ELSE filters_
  /\ buffer_8_' = ProcessGranularRing(buffer_8_, resolution = 8, n)
  /\ buffer_16_' = ProcessGranularRing(buffer_16_, resolution # 8, n)
  /\ buffer_' = IF playback_mode_ \in RecordingModes
                  THEN [i \in 0..1 |->
                         IF i < num_channels_
                           THEN WriteFadeWords(i, buffer_[i], n, play)
                           ELSE buffer_[i]]
                  ELSE buffer_
  /\ pitch_shifter_' = IF shifts THEN "run" ELSE pitch_shifter_
  /\ fb_' = TRUE
  /\ mute_out_fade_' = ONE_POLE(mute_out_fade_, SmoothSteps)
  /\ output' = out
  /\ trace_' =
       [parameters |-> ctl,
        calls |-> ProcessCalls(play, shared, shifts, filtered),
        feedback |-> feedback,
        fb_gain |-> fb_gain,
        in_ |-> in_,
        injected |-> Injected(in_, fb_gain),
        pitch_shift_amount |->
          IF playback_mode_ = PLAYBACK_MODE_OLIVERB
            THEN OliverbPitchShiftAmount(ctl.pitch) ELSE NotSet,
        dry_wet |->
          IF ~shifts THEN NotSet
          ELSE IF playback_mode_ = PLAYBACK_MODE_SPECTRAL_CLOUD THEN FullWet
          ELSE PitchShifterDryWet(ctl.pitch)]
  /\ UNCHANGED <<cfgVars, engines_, persistent_state_>>

ProcessBypass_after_gate(in) ==
  /\ bypass_
  /\ output' = IF silence_ THEN ZeroBlock(Len(in)) ELSE in
  /\ UNCHANGED processorState

ProcessBypass(in) ==
  /\ bypass_
  /\ output' = in
  /\ UNCHANGED processorState

ProcessSilence(in) ==
  /\ ~bypass_
  /\ Gated
  /\ output' = ZeroBlock(Len(in))
  /\ UNCHANGED processorState

Process(in, synchronized, ctl, out) ==
  /\ load_pc # "done"
  /\ input' = in
  /\ prepare_path_' = IF MainThread THEN NoPath ELSE prepare_path_
  /\ \/ ProcessBypass(in) /\ trace_' = NoTrace
     \/ ProcessSilence(in) /\ trace_' = NoTrace
     \/ ~bypass_ /\ ~Gated /\ ProcessRun(in, synchronized, ctl, out)
  /\ UNCHANGED <<flash, saved, loadVars>>

\* -------------------------------------------------------------- persistence
PersistentStateWords(ps) ==
  <<ps.write_head[1], ps.write_head[2], ps.quality + 256 * ps.spectral>>

WordsPersistentState(w) ==
  [write_head |-> <<w[1], w[2]>>,
   quality |-> w[3] % 256,
   spectral |-> (w[3] \div 256) % 256]

PreparePersistentData_other_ring ==
  [write_head |-> IF low_fidelity_ THEN <<buffer_16_[0], buffer_16_[1]>>
                  ELSE <<buffer_8_[0], buffer_8_[1]>>,
   quality |-> quality,
   spectral |-> IF IsSpectral(playback_mode_) THEN playback_mode_ ELSE 0]

PreparePersistentData ==
  [write_head |-> <<ActiveRing[0], ActiveRing[1]>>,
   quality |-> quality,
   spectral |-> IF IsSpectral(playback_mode_) THEN playback_mode_ ELSE 0]

GetPersistentData_small_blocks(channels) ==
  <<[tag |-> TagStat, data |-> "persistent_state_", index |-> 0,
     size |-> SizeofPersistentState]>>
  \o [k \in 1..channels |->
       [tag |-> TagBuff, data |-> "buffer_", index |-> k - 1,
        size |-> buffer_size_[1]]]

\* The expected layout for a channel count: <<state block, buffer blocks>>.
GetPersistentData(channels) ==
  <<[tag |-> TagStat, data |-> "persistent_state_", index |-> 0,
     size |-> SizeofPersistentState]>>
  \o [k \in 1..channels |->
       [tag |-> TagBuff, data |-> "buffer_", index |-> k - 1,
        size |-> buffer_size_[channels - 1]]]

BlockPayload(b, ps, mem) ==
  IF b.data = "persistent_state_"
    THEN PersistentStateWords(ps)
    ELSE SubSeq(mem[b.index], 1, b.size \div BytesPerWord)

\* The blocks as written to storage: tag word, size word, payload.
RECURSIVE Serialize(_, _, _)
Serialize(blocks, ps, mem) ==
  IF blocks = <<>> THEN <<>>
  ELSE <<Head(blocks).tag, Head(blocks).size>>
       \o BlockPayload(Head(blocks), ps, mem)
       \o Serialize(Tail(blocks), ps, mem)

\* PreparePersistentData, GetPersistentData, and the blocks written out.
Save ==
  /\ MainThread
  /\ persistent_state_' = PreparePersistentData
  /\ flash' = Serialize(GetPersistentData(num_channels_),
                        PreparePersistentData, buffer_)
  /\ saved' = [mode |-> playback_mode_,
               head |-> <<ActiveRing[0], ActiveRing[1]>>]
  /\ Quiet
  /\ UNCHANGED <<cfgVars, ringVars, dspVars, engines_, loadVars>>

\* Positions of the tag and size words of the blocks of a stream.
RECURSIVE HeaderPositions(_, _)
HeaderPositions(stream, p) ==
  IF p + 1 > Len(stream) THEN {}
  ELSE {p, p + 1}
       \cup HeaderPositions(stream, p + 2 + stream[p + 1] \div BytesPerWord)

\* The qualities and spectral flags of the streams found in storage.
StoredQualities == {1, 2}
StoredSpectral == {0, PLAYBACK_MODE_SPECTRAL, PLAYBACK_MODE_SPECTRAL_CLOUD}

\* Streams found in storage that an earlier session saved: with the write
\* heads apart and the sample storage full of audio.
IntactStreams ==
  {Serialize(GetPersistentData(QualityChannels(q)),
             [write_head |-> <<1, 0>>, quality |-> q, spectral |-> sp],
             [i \in 0..1 |->
                [w \in 1..(buffer_size_[i] \div BytesPerWord) |-> 1]]) :
     q \in StoredQualities, sp \in StoredSpectral}

\* The same streams with one tag or size word damaged.
DamagedStreams ==
  UNION {{[st EXCEPT ![p] = @ + 1] : p \in HeaderPositions(st, 1)} :
           st \in IntactStreams}

\* data[k] of LoadPersistentData, data pointing at word load_data of data_.
Data(k) == IF load_data + k <= Len(data_) THEN data_[load_data + k] ELSE 0

num_blocks == Len(block)

LoadBegin_not_silenced(stream) ==
  /\ MainThread
  /\ stream # <<>>
  /\ data_' = stream
  /\ entry_silence' = silence_
  /\ entry_channels' = num_channels_
  /\ silence_' = silence_
  /\ block' = GetPersistentData(num_channels_)
  /\ load_i' = 0
  /\ load_data' = 1
  /\ load_ret' = FALSE
  /\ copied' = {}
  /\ load_pc' = "check"
  /\ Quiet
  /\ UNCHANGED <<reverb_dry_signal_, bypass_, reset_buffers_, playback_mode_,
                 previous_playback_mode_, num_channels_, low_fidelity_,
                 parameters_, ringVars, dspVars, engines_, storeVars>>
LoadBegin(stream) ==
  /\ MainThread
  /\ stream # <<>>
  /\ data_' = stream
  /\ entry_silence' = silence_
  /\ entry_channels' = num_channels_
  /\ silence_' = TRUE
  /\ block' = GetPersistentData(num_channels_)
  /\ load_i' = 0
  /\ load_data' = 1
  /\ load_ret' = FALSE
  /\ copied' = {}
  /\ load_pc' = "check"
  /\ Quiet
  /\ UNCHANGED <<reverb_dry_signal_, bypass_, reset_buffers_, playback_mode_,
                 previous_playback_mode_, num_channels_, low_fidelity_,
                 parameters_, ringVars, dspVars, engines_, storeVars>>

FormatMismatch_tag_only ==
  block[load_i + 1].tag # Data(0)

FormatMismatch ==
  block[load_i + 1].tag # Data(0) \/ block[load_i + 1].size # Data(1)

LoadCheck_leaves_silence ==
  /\ load_pc = "check"
  /\ IF FormatMismatch
       THEN /\ silence_' = silence_
            /\ load_ret' = FALSE
            /\ load_pc' = "done"
       ELSE /\ load_pc' = "copy"
            /\ UNCHANGED <<silence_, load_ret>>
  /\ NoIO /\ UNCHANGED prepare_path_
  /\ UNCHANGED <<reverb_dry_signal_, bypass_, reset_buffers_, playback_mode_,
                 previous_playback_mode_, num_channels_, low_fidelity_,
                 parameters_, ringVars, dspVars, engines_, storeVars, data_,
                 entry_silence, entry_channels, load_i, load_data, block,
                 copied>>
LoadCheck_freezes_on_failure ==
  /\ load_pc = "check"
  /\ IF FormatMismatch
       THEN /\ silence_' = FALSE
            /\ load_ret' = FALSE
            /\ load_pc' = "done"
            /\ parameters_' = [parameters_ EXCEPT !.freeze = TRUE]
       ELSE /\ load_pc' = "copy"
            /\ UNCHANGED <<silence_, load_ret, parameters_>>
  /\ NoIO /\ UNCHANGED prepare_path_
  /\ UNCHANGED <<reverb_dry_signal_, bypass_, reset_buffers_, playback_mode_,
                 previous_playback_mode_, num_channels_, low_fidelity_,
                 ringVars, dspVars, engines_, storeVars, data_,
                 entry_silence, entry_channels, load_i, load_data, block,
                 copied>>
LoadCheck ==
  /\ load_pc = "check"
  /\ IF FormatMismatch
       THEN /\ silence_' = FALSE
            /\ load_ret' = FALSE
            /\ load_pc' = "done"
       ELSE /\ load_pc' = "copy"
            /\ UNCHANGED <<silence_, load_ret>>
  /\ NoIO /\ UNCHANGED prepare_path_
  /\ UNCHANGED <<reverb_dry_signal_, bypass_, reset_buffers_, playback_mode_,
                 previous_playback_mode_, num_channels_, low_fidelity_,
                 parameters_, ringVars, dspVars, engines_, storeVars, data_,
                 entry_silence, entry_channels, load_i, load_data, block,
                 copied>>

LoadCopy ==
  LET b == block[load_i + 1]
      words == b.size \div BytesPerWord
      payload == [w \in 1..words |-> Data(2 + w - 1)]
  IN
  /\ load_pc = "copy"
  /\ IF b.data = "persistent_state_"
       THEN /\ persistent_state_' = WordsPersistentState(payload)
            /\ UNCHANGED buffer_
       ELSE /\ buffer_' = [buffer_ EXCEPT ![b.index] =
                            [w \in 1..Len(@) |->
                               IF w <= words THEN payload[w] ELSE @[w]]]
            /\ UNCHANGED persistent_state_
  /\ load_data' = load_data + 2 + words
  /\ copied' = copied \cup {load_i}
  /\ IF load_i = 0
       THEN load_pc' = "switch" /\ UNCHANGED load_i
       ELSE /\ load_i' = load_i + 1
            /\ load_pc' = IF load_i + 1 < num_blocks THEN "check"
                          ELSE "resync"
  /\ NoIO /\ UNCHANGED prepare_path_
  /\ UNCHANGED <<cfgVars, buffer_8_, buffer_16_, dspVars, engines_, flash,
                 saved, data_, entry_silence, entry_channels, load_ret, block>>

LoadSwitch_either_spectral ==
  LET currently_spectral ==
        IF IsSpectral(playback_mode_) THEN playback_mode_ ELSE 0
      requires_spectral == persistent_state_.spectral
  IN
  /\ load_pc = "switch"
  /\ playback_mode_' =
       IF (currently_spectral # 0) # (requires_spectral # 0)
         THEN (IF requires_spectral # 0 THEN requires_spectral
               ELSE PLAYBACK_MODE_GRANULAR)
         ELSE playback_mode_
  /\ set_quality_assignments(persistent_state_.quality)
  /\ load_pc' = "prepare"
  /\ Quiet
  /\ UNCHANGED <<reverb_dry_signal_, bypass_, silence_,
                 previous_playback_mode_, parameters_, ringVars, dspVars,
                 engines_, storeVars, data_, entry_silence, entry_channels,
                 load_i, load_data,
                 load_ret, block, copied>>
LoadSwitch ==
  LET currently_spectral ==
        IF IsSpectral(playback_mode_) THEN playback_mode_ ELSE 0
      requires_spectral == persistent_state_.spectral
  IN
  /\ load_pc = "switch"
  /\ playback_mode_' =
       IF currently_spectral # requires_spectral
         THEN (IF requires_spectral # 0 THEN requires_spectral
               ELSE PLAYBACK_MODE_GRANULAR)
         ELSE playback_mode_
  /\ set_quality_assignments(persistent_state_.quality)
  /\ load_pc' = "prepare"
  /\ Quiet
  /\ UNCHANGED <<reverb_dry_signal_, bypass_, silence_,
                 previous_playback_mode_, parameters_, ringVars, dspVars,
                 engines_, storeVars, data_, entry_silence, entry_channels,
                 load_i, load_data,
                 load_ret, block, copied>>

LoadPrepare_stale_layout ==
  /\ load_pc = "prepare"
  /\ PrepareAssignments
  /\ block' = block
  /\ load_i' = 1
  /\ load_pc' = "check"
  /\ NoIO
  /\ UNCHANGED <<storeVars, data_, entry_silence, entry_channels, load_data,
                 load_ret, copied>>

LoadPrepare ==
  /\ load_pc = "prepare"
  /\ PrepareAssignments
  /\ block' = GetPersistentData(num_channels_)
  /\ load_i' = 1
  /\ load_pc' = "check"
  /\ NoIO
  /\ UNCHANGED <<storeVars, data_, entry_silence, entry_channels, load_data,
                 load_ret, copied>>

Resync(ring, on) ==
  IF on THEN [i \in 0..1 |-> persistent_state_.write_head[i + 1]] ELSE ring

LoadResync_other_resolution ==
  /\ load_pc = "resync"
  /\ buffer_8_' = Resync(buffer_8_, ~low_fidelity_)
  /\ buffer_16_' = Resync(buffer_16_, low_fidelity_)
  /\ parameters_' = [parameters_ EXCEPT !.freeze = TRUE]
  /\ silence_' = FALSE
  /\ load_ret' = TRUE
  /\ load_pc' = "done"
  /\ NoIO /\ UNCHANGED prepare_path_
  /\ UNCHANGED <<reverb_dry_signal_, bypass_, reset_buffers_, playback_mode_,
                 previous_playback_mode_, num_channels_, low_fidelity_,
                 buffer_, dspVars, engines_, storeVars, data_, entry_silence,
                 entry_channels,
                 load_i, load_data, block, copied>>

LoadResync ==
  /\ load_pc = "resync"
  /\ buffer_8_' = Resync(buffer_8_, low_fidelity_)
  /\ buffer_16_' = Resync(buffer_16_, ~low_fidelity_)
  /\ parameters_' = [parameters_ EXCEPT !.freeze = TRUE]
  /\ silence_' = FALSE
  /\ load_ret' = TRUE
  /\ load_pc' = "done"
  /\ NoIO /\ UNCHANGED prepare_path_
  /\ UNCHANGED <<reverb_dry_signal_, bypass_, reset_buffers_, playback_mode_,
                 previous_playback_mode_, num_channels_, low_fidelity_,
                 buffer_, dspVars, engines_, storeVars, data_, entry_silence,
                 entry_channels,
                 load_i, load_data, block, copied>>

\* LoadPersistentData has returned load_ret; the caller carries on.
LoadReturn ==
  /\ load_pc = "done"
  /\ load_pc' = "idle"
  /\ data_' = <<>>
  /\ entry_silence' = FALSE
  /\ entry_channels' = 0
  /\ load_i' = 0
  /\ load_data' = 1
  /\ load_ret' = FALSE
  /\ block' = <<>>
  /\ copied' = {}
  /\ Quiet
  /\ UNCHANGED <<cfgVars, ringVars, dspVars, engines_, storeVars>>

LoadPersistentData ==
  \/ \E stream \in {flash} \cup IntactStreams \cup DamagedStreams :
       LoadBegin(stream)
  \/ LoadCheck
  \/ LoadCopy
  \/ LoadSwitch
  \/ LoadPrepare
  \/ LoadResync
  \/ LoadReturn

\* Init called again on a running processor.
Reinit ==
  /\ MainThread
  /\ InitAssignments
  /\ Quiet
  /\ UNCHANGED <<silence_, playback_mode_, parameters_, ringVars, freeze_lp_,
                 fb_, pitch_shifter_, engines_, storeVars, loadVars>>

NextProcess ==
  \/ \E b \in BOOLEAN : set_bypass(b)
  \/ \E b \in BOOLEAN : set_silence(b)
  \/ \E m \in PlaybackModes : set_playback_mode(m)
  \/ \E q \in 0..1 : set_quality(q)
  \/ Prepare
  \/ \E in \in Blocks, synchronized \in BOOLEAN :
       \E out \in DspOutcomes(in) :
         Process(in, synchronized, DefaultControls, out)

SpecProcess == Init /\ [][NextProcess]_vars


\* Mode, quality and freeze changes with Prepare, and audio running in
\* between.
NextPrepare ==
  \/ \E m \in PlaybackModes : set_playback_mode(m)
  \/ \E q \in {0, 3} : set_quality(q)
  \/ \E b \in BOOLEAN : set_freeze(b)
  \/ Prepare
  \/ \E in \in Blocks, synchronized \in BOOLEAN :
       Process(in, synchronized, DefaultControls, Processed(in))

SpecPrepare == Init /\ [][NextPrepare]_vars

\* Loading streams found in storage, intact or damaged, with mode and
\* quality changes and Prepare in between.
NextLoad ==
  \/ \E m \in PlaybackModes : set_playback_mode(m)
  \/ \E q \in StoredQualities : set_quality(q)
  \/ Prepare
  \/ \E stream \in IntactStreams \cup DamagedStreams : LoadBegin(stream)
  \/ LoadCheck
  \/ LoadCopy
  \/ LoadSwitch
  \/ LoadPrepare
  \/ LoadResync
  \/ LoadReturn

SpecLoad == Init /\ [][NextLoad]_vars

\* Loading with the audio callback running, bypass and silence being
\* switched by the caller.
NextLoadAudio ==
  \/ \E b \in BOOLEAN : set_bypass(b)
  \/ \E b \in BOOLEAN : set_silence(b)
  \/ \E in \in Blocks : Process(in, FALSE, DefaultControls, Processed(in))
  \/ \E stream \in IntactStreams \cup DamagedStreams : LoadBegin(stream)
  \/ LoadCheck
  \/ LoadCopy
  \/ LoadSwitch
  \/ LoadPrepare
  \/ LoadResync
  \/ LoadReturn

SpecLoadAudio == Init /\ [][NextLoadAudio]_vars

\* Saving, then loading what was saved, with audio, mode and quality changes
\* and Prepare in between.
NextRoundTrip ==
  \/ \E m \in {PLAYBACK_MODE_GRANULAR, PLAYBACK_MODE_SPECTRAL,
              PLAYBACK_MODE_SPECTRAL_CLOUD} : set_playback_mode(m)
  \/ \E q \in {0, 3} : set_quality(q)
  \/ Prepare
  \/ \E in \in {b \in Blocks : Len(b) = MaxSize} :
       Process(in, FALSE, DefaultControls, Processed(in))
  \/ Save
  \/ LoadBegin(flash)
  \/ LoadCheck
  \/ LoadCopy
  \/ LoadSwitch
  \/ LoadPrepare
  \/ LoadResync
  \/ LoadReturn

SpecRoundTrip == Init /\ [][NextRoundTrip]_vars

\* The signal chain under every mode, freeze, the reverb placement flag and
\* the feedback and reverb controls.
DspControls ==
  {[DefaultControls EXCEPT !.feedback = f, !.reverb = r, !.slice = sl] :
     f \in Levels, r \in Levels, sl \in BOOLEAN}

NextDsp ==
  \/ \E m \in PlaybackModes : set_playback_mode(m)
  \/ \E b \in BOOLEAN : set_freeze(b)
  \/ \E b \in BOOLEAN : set_reverb_dry_signal(b)
  \/ set_quality(1)
  \/ Prepare
  \/ \E in \in {b \in Blocks : Len(b) = MaxSize}, synchronized \in BOOLEAN,
        ctl \in DspControls :
       Process(in, synchronized, ctl, Processed(in))

SpecDsp == Init /\ [][NextDsp]_vars

\* The two pitch crossfades: OLIVERB and LOOPING_DELAY over the pitch range.
PitchControls == {[DefaultControls EXCEPT !.pitch = x] : x \in PitchValues}

NextPitch ==
  \/ \E m \in {PLAYBACK_MODE_OLIVERB, PLAYBACK_MODE_LOOPING_DELAY} :
       set_playback_mode(m)
  \/ \E b \in BOOLEAN : set_freeze(b)
  \/ Prepare
  \/ \E synchronized \in BOOLEAN, ctl \in PitchControls :
       LET in == [i \in 1..MaxSize |-> <<1, 1>>]
       IN Process(in, synchronized, ctl, Processed(in))

SpecPitch == Init /\ [][NextPitch]_vars

\* Every operation, with every input.
Next ==
  \/ \E b \in BOOLEAN : set_bypass(b)
  \/ \E b \in BOOLEAN : set_silence(b)
  \/ \E m \in PlaybackModes : set_playback_mode(m)
  \/ \E b \in BOOLEAN : set_freeze(b)
  \/ \E b \in BOOLEAN : set_reverb_dry_signal(b)
  \/ \E q \in 0..3 : set_quality(q)
  \/ Prepare
  \/ \E in \in Blocks, synchronized \in BOOLEAN,
        ctl \in DspControls \cup PitchControls :
       \E out \in DspOutcomes(in) : Process(in, synchronized, ctl, out)
  \/ Save
  \/ LoadPersistentData
  \/ Reinit

Spec == Init /\ [][Next]_vars

\* ------------------------------------------------------------------ claims
\* A step is a Process call exactly when it leaves a block in input.
\* Process changes none of the flags its gates read, so a gate may be read
\* in the state the call started from.

\* C1: with bypass_ set, Process copies every input frame to the output and
\* changes no processor state, whatever silence_, reset_buffers_ and the
\* prepared mode are.
C1_BypassCopiesInput ==
  [][(input' # NoBlock /\ bypass_)
       => (output' = input' /\ processorState' = processorState)]_vars

C1_Witness ==
  /\ bypass_ /\ silence_ /\ reset_buffers_
  /\ previous_playback_mode_ # playback_mode_
  /\ fb_
  /\ Len(input) = MaxSize
  /\ output = input

\* C2: with bypass_ clear and silence_ set, reset_buffers_ set or the active
\* mode different from the prepared one, Process writes zero to both channels
\* of every output frame and leaves ring buffers, filters, feedback history
\* and smoothers as they were.
C2_GateSilences ==
  [][(/\ input' # NoBlock
      /\ ~bypass_
      /\ (silence_ \/ reset_buffers_
            \/ previous_playback_mode_ # playback_mode_))
       => (/\ Len(output') = Len(input')
           /\ \A i \in 1..Len(output') : output'[i] = <<0, 0>>
           /\ <<ringVars, dspVars>>' = <<ringVars, dspVars>>)]_vars

C2_Witness ==
  /\ ~bypass_ /\ ~silence_ /\ reset_buffers_
  /\ previous_playback_mode_ = playback_mode_
  /\ fb_
  /\ Len(input) = MaxSize
  /\ \A i \in 1..Len(output) : output[i] = <<0, 0>>


\* A step is a Prepare call (made directly or by a load) exactly when it
\* leaves a branch in prepare_path_; Prepare does not change playback_mode_.

\* C3: loading the stream that the last save wrote returns true, puts both
\* write heads of the active resolution back where they were at the save,
\* and leaves the spectral status of the active mode equal to the saved
\* one.
C3_RoundTrip ==
  (load_pc = "done" /\ data_ = flash)
    => /\ load_ret
       /\ (IF low_fidelity_ THEN buffer_8_ ELSE buffer_16_)
            = [i \in 0..1 |-> saved.head[i + 1]]
       /\ (IF playback_mode_ \in {PLAYBACK_MODE_SPECTRAL,
                                  PLAYBACK_MODE_SPECTRAL_CLOUD}
             THEN playback_mode_ ELSE 0)
            = (IF saved.mode \in {PLAYBACK_MODE_SPECTRAL,
                                  PLAYBACK_MODE_SPECTRAL_CLOUD}
                 THEN saved.mode ELSE 0)
       /\ persistent_state_.spectral
            = (IF saved.mode \in {PLAYBACK_MODE_SPECTRAL,
                                  PLAYBACK_MODE_SPECTRAL_CLOUD}
                 THEN saved.mode ELSE 0)

\* A load of the saved stream has returned true with the mode as it was at
\* the save, the heads back at a non-zero saved offset after the load's
\* Prepare had re-partitioned the buffers.
C3_Witness ==
  /\ load_pc = "done"
  /\ data_ = flash
  /\ load_ret
  /\ saved.mode = playback_mode_
  /\ saved.head = <<1, 0>>
  /\ low_fidelity_
  /\ buffer_8_[0] = 1
  /\ prepare_path_.branch = "structural"

\* C4: when the tag or size word of block k of the stream differs from the
\* expected block k, the load returns false at once: blocks 0..k-1 and no
\* others have been copied, and the step copies nothing, moves no write
\* head and leaves freeze as it is.
C4_MismatchStopsLoad ==
  [][(/\ load_pc = "check"
      /\ \/ block[load_i + 1].tag # Data(0)
         \/ block[load_i + 1].size # Data(1))
       => (/\ load_pc' = "done"
           /\ load_ret' = FALSE
           /\ copied' = 0..(load_i - 1)
           /\ buffer_' = buffer_
           /\ persistent_state_' = persistent_state_
           /\ buffer_8_' = buffer_8_
           /\ buffer_16_' = buffer_16_
           /\ parameters_' = parameters_)]_vars

\* The load has failed on the third block of a stereo stream: two blocks
\* copied, heads not at the stored <<1, 0>>, freeze off.
C4_Witness ==
  /\ load_pc = "done"
  /\ ~load_ret
  /\ load_i = 2
  /\ copied = {0, 1}
  /\ data_[3] = 1
  /\ low_fidelity_
  /\ buffer_8_[0] = 0
  /\ ~parameters_.freeze

\* C5: with reset_buffers_ clear, a Prepare after a change between two of
\* GRANULAR, STRETCH, LOOPING_DELAY, KAMMERL resets the filters and clears the
\* pitch shifter, and leaves ring buffers (heads and content), the engines
\* set up by the last partitioning pass and the freeze flag as they were.
C5_BenignKeepsBuffers ==
  [][(/\ prepare_path_'.branch # "none"
      /\ ~reset_buffers_
      /\ previous_playback_mode_ # playback_mode_
      /\ {previous_playback_mode_, playback_mode_}
           \subseteq {PLAYBACK_MODE_GRANULAR, PLAYBACK_MODE_STRETCH,
                      PLAYBACK_MODE_LOOPING_DELAY, PLAYBACK_MODE_KAMMERL})
       => (/\ filters_' = "reset"
           /\ pitch_shifter_' = "clear"
           /\ ringVars' = ringVars
           /\ engines_' = engines_
           /\ parameters_' = parameters_)]_vars

C5_Witness ==
  /\ prepare_path_.branch = "benign"
  /\ playback_mode_ = PLAYBACK_MODE_KAMMERL
  /\ parameters_.freeze
  /\ buffer_16_[0] # 0
  /\ buffer_[0][1] = 1
  /\ engines_.engine = "players"

\* C6: a Prepare with reset_buffers_ set, or after a mode change to or from
\* SPECTRAL, SPECTRAL_CLOUD, RESONESTOR, OLIVERB or from the "none yet"
\* sentinel, re-partitions: the engines of the active mode are initialised,
\* and in the ring-buffer modes the active ring buffer of every channel is
\* initialised (head 0, storage cleared).
C6_StructuralRepartitions ==
  [][(/\ prepare_path_'.branch # "none"
      /\ \/ reset_buffers_
         \/ /\ previous_playback_mode_ # playback_mode_
            /\ \/ previous_playback_mode_ = PLAYBACK_MODE_LAST
               \/ {previous_playback_mode_, playback_mode_}
                    \cap {PLAYBACK_MODE_SPECTRAL, PLAYBACK_MODE_SPECTRAL_CLOUD,
                          PLAYBACK_MODE_RESONESTOR, PLAYBACK_MODE_OLIVERB}
                    # {})
       => (/\ prepare_path_'.branch = "structural"
           /\ engines_'.reverb =
                (IF playback_mode_ = PLAYBACK_MODE_OLIVERB THEN "oliverb_"
                 ELSE "reverb_")
           /\ playback_mode_ = PLAYBACK_MODE_SPECTRAL
                => engines_'.engine = "phase_vocoder_frame"
           /\ playback_mode_ = PLAYBACK_MODE_SPECTRAL_CLOUD
                => engines_'.engine = "phase_vocoder_cloud"
           /\ playback_mode_ = PLAYBACK_MODE_RESONESTOR
                => engines_'.engine = "resonestor_"
           /\ playback_mode_ \in {PLAYBACK_MODE_GRANULAR, PLAYBACK_MODE_STRETCH,
                                  PLAYBACK_MODE_LOOPING_DELAY,
                                  PLAYBACK_MODE_OLIVERB, PLAYBACK_MODE_KAMMERL}
                => /\ engines_'.engine = "players"
                   /\ \A i \in 0..(num_channels_ - 1) :
                        /\ (IF low_fidelity_ THEN buffer_8_'[i]
                            ELSE buffer_16_'[i]) = 0
                        /\ buffer_'[i][1] = 0)]_vars

C6_Witness ==
  /\ prepare_path_.branch = "structural"
  /\ playback_mode_ = PLAYBACK_MODE_OLIVERB
  /\ num_channels_ = 1
  /\ low_fidelity_
  /\ fb_
  /\ engines_ = [reverb |-> "oliverb_", engine |-> "players"]

C8_LoadedHeadsAndFreeze ==
  (load_pc = "done" /\ load_ret)
    => /\ parameters_.freeze
       /\ (IF low_fidelity_ THEN buffer_8_ ELSE buffer_16_)
            = [i \in 0..1 |-> data_[3 + i]]

\* A load has returned true after its Prepare re-partitioned the buffers.
C8_Witness ==
  /\ load_pc = "done"
  /\ load_ret
  /\ prepare_path_.branch = "structural"
  /\ low_fidelity_
  /\ buffer_8_ = [i \in 0..1 |-> IF i = 0 THEN 1 ELSE 0]
  /\ parameters_.freeze

\* C9: once the state block is accepted the active mode becomes the stored
\* spectral mode, or GRANULAR, when the stored flag differs from the
\* current spectral mode (none counting as 0) and is kept otherwise, and
\* the stored quality is applied; Prepare then runs; and every buffer block
\* is copied after that Prepare, with the prepared mode equal to the active
\* mode and the reset-buffers flag clear.
C9_SwitchThenPrepare ==
  [][/\ load_pc = "switch"
          => LET requires_spectral == (data_[5] \div 256) % 256
                 stored_quality == data_[5] % 256
                 currently_spectral ==
                   IF playback_mode_ \in {PLAYBACK_MODE_SPECTRAL,
                                          PLAYBACK_MODE_SPECTRAL_CLOUD}
                     THEN playback_mode_ ELSE 0
             IN /\ playback_mode_' =
                     IF currently_spectral = requires_spectral
                       THEN playback_mode_
                     ELSE IF requires_spectral = 0
                       THEN PLAYBACK_MODE_GRANULAR
                     ELSE requires_spectral
                /\ num_channels_' = IF stored_quality % 2 = 1 THEN 1 ELSE 2
                /\ low_fidelity_' = (stored_quality \div 2 = 1)
                /\ load_pc' = "prepare"
                /\ copied' = {0}
     /\ load_pc = "prepare"
          => /\ prepare_path_'.branch # "none"
             /\ previous_playback_mode_' = playback_mode_'
             /\ ~reset_buffers_'
             /\ copied' = {0}
     /\ (copied' # copied /\ copied # {})
          => /\ prepare_path_.branch # "none"
             /\ previous_playback_mode_ = playback_mode_
             /\ ~reset_buffers_]_vars

\* The load has switched to the stored SPECTRAL_CLOUD mode and mono hi-fi
\* quality, re-partitioned, and copied the buffer block.
C9_Witness ==
  /\ load_pc = "resync"
  /\ copied = {0, 1}
  /\ data_[5] = 1 + 256 * PLAYBACK_MODE_SPECTRAL_CLOUD
  /\ playback_mode_ = PLAYBACK_MODE_SPECTRAL_CLOUD
  /\ previous_playback_mode_ = PLAYBACK_MODE_SPECTRAL_CLOUD
  /\ num_channels_ = 1
  /\ ~low_fidelity_
  /\ prepare_path_.branch = "structural"
  /\ buffer_[0][1] = 1

\* C10: at every return of the load, true or false, silence_ is clear.
C10_SilenceClearedOnReturn ==
  load_pc = "done" => ~silence_

\* The load has returned false with silence clear although the caller had
\* silence set when it started the load.
C10_Witness ==
  /\ load_pc = "done"
  /\ ~load_ret
  /\ load_i = 1
  /\ entry_silence
  /\ ~silence_

\* C11: the expected layout is the state block ('Stat', the size of the
\* PersistentState record) followed by one 'buff' block per active channel,
\* in channel order, each over the sample storage Prepare gives that channel:
\* in mono the whole large region, in stereo the first small-region-sized
\* part of each region.
C11_LayoutFollowsPartition ==
  load_pc \in {"check", "copy", "resync", "done"}
    => /\ Len(block) = 1 + num_channels_
       /\ block[1] = [tag |-> TagStat, data |-> "persistent_state_",
                      index |-> 0, size |-> SizeofPersistentState]
       /\ \A i \in 0..(num_channels_ - 1) :
            block[i + 2] =
              [tag |-> TagBuff, data |-> "buffer_", index |-> i,
               size |-> IF num_channels_ = 1
                          THEN LargeWords * BytesPerWord
                          ELSE SmallWords * BytesPerWord]

\* The load has switched from stereo to mono and recomputed the layout: one
\* buffer block, over the whole large region.
C11_Witness ==
  /\ load_pc = "check"
  /\ load_i = 1
  /\ num_channels_ = 1
  /\ Len(block) = 2
  /\ block[2].index = 0
  /\ block[2].size = LargeWords * BytesPerWord
  /\ prepare_path_.branch = "structural"

\* C13: after every Prepare, whatever it found, reset_buffers_ is clear and
\* previous_playback_mode_ equals playback_mode_, so neither silences the
\* next Process.
C13_PrepareLeavesProcessOpen ==
  [][(prepare_path_'.branch # "none" /\ load_pc \in {"idle", "prepare"})
       => (/\ ~reset_buffers_'
           /\ previous_playback_mode_' = playback_mode_'
           /\ playback_mode_' = playback_mode_)]_vars

\* Prepare has taken the benign path with freeze on, and left the flag clear
\* and the prepared mode equal to the active one.
C13_Witness ==
  /\ prepare_path_.branch = "benign"
  /\ parameters_.freeze
  /\ ~reset_buffers_
  /\ previous_playback_mode_ = playback_mode_
  /\ playback_mode_ = PLAYBACK_MODE_LOOPING_DELAY
  /\ fb_

\* C14: Prepare sets freeze to false when reset_buffers_ is set or the mode
\* changed with either side SPECTRAL, SPECTRAL_CLOUD, RESONESTOR, OLIVERB or
\* the sentinel; otherwise (benign change, or nothing to do) freeze keeps its
\* value.
C14_FreezeDisengagedOnStructural ==
  [][(prepare_path_'.branch # "none" /\ load_pc \in {"idle", "prepare"})
       => LET heavy == {PLAYBACK_MODE_SPECTRAL, PLAYBACK_MODE_SPECTRAL_CLOUD,
                        PLAYBACK_MODE_RESONESTOR, PLAYBACK_MODE_OLIVERB}
              structural ==
                \/ reset_buffers_
                \/ /\ previous_playback_mode_ # playback_mode_
                   /\ \/ playback_mode_ \in heavy
                      \/ previous_playback_mode_ \in heavy
                      \/ previous_playback_mode_ = PLAYBACK_MODE_LAST
          IN parameters_'.freeze =
               (IF structural THEN FALSE ELSE parameters_.freeze)]_vars

\* Prepare has run on a benign change from another ring-buffer mode with
\* freeze on and recorded audio in place: freeze is still on.
C14_Witness ==
  /\ prepare_path_.branch = "benign"
  /\ playback_mode_ = PLAYBACK_MODE_GRANULAR
  /\ parameters_.freeze
  /\ buffer_[0][1] = 1

\* C15: a Process call that is not gated calls the generic reverb once when
\* the mode is not OLIVERB, RESONESTOR or KAMMERL and never in those modes;
\* the one call comes before the dry/wet crossfade when reverb_dry_signal_
\* is clear and after it when the flag is set.
C15_ReverbOnceAtOneSite ==
  [][(/\ input' # NoBlock
      /\ ~bypass_
      /\ ~(silence_ \/ reset_buffers_
             \/ previous_playback_mode_ # playback_mode_))
       => LET calls == trace_'.calls
              reverbs == {k \in 1..Len(calls) : calls[k][1] = "reverb_"}
              mixes == {k \in 1..Len(calls) : calls[k][1] = "dry_wet_"}
          IN IF playback_mode_ \in {PLAYBACK_MODE_OLIVERB,
                                    PLAYBACK_MODE_RESONESTOR,
                                    PLAYBACK_MODE_KAMMERL}
               THEN reverbs = {}
               ELSE /\ Cardinality(reverbs) = 1
                    /\ Cardinality(mixes) = 1
                    /\ \A k \in reverbs, m \in mixes :
                         IF reverb_dry_signal_ THEN k > m ELSE k < m]_vars

\* A SPECTRAL block has run with the flag clear: the reverb right before the
\* crossfade, which is the last call.
C15_Witness ==
  /\ playback_mode_ = PLAYBACK_MODE_SPECTRAL
  /\ ~reverb_dry_signal_
  /\ Len(trace_.calls) >= 2
  /\ trace_.calls[Len(trace_.calls) - 1][1] = "reverb_"
  /\ trace_.calls[Len(trace_.calls)][1] = "dry_wet_"

C18_FeedbackVanishesWhenFrozen ==
  [][(/\ input' # NoBlock
      /\ ~bypass_
      /\ ~(silence_ \/ reset_buffers_
             \/ previous_playback_mode_ # playback_mode_)
      /\ playback_mode_ \in {PLAYBACK_MODE_GRANULAR, PLAYBACK_MODE_STRETCH,
                             PLAYBACK_MODE_LOOPING_DELAY,
                             PLAYBACK_MODE_SPECTRAL})
       => (/\ freeze_lp_' =
                (IF parameters_.freeze
                   THEN (IF freeze_lp_ < SmoothSteps THEN freeze_lp_ + 1
                         ELSE SmoothSteps)
                   ELSE (IF freeze_lp_ > 0 THEN freeze_lp_ - 1 ELSE 0))
           /\ trace_'.fb_gain =
                trace_'.parameters.feedback * (SmoothSteps - freeze_lp_')
           /\ freeze_lp_' = SmoothSteps
                => /\ trace_'.fb_gain = 0
                   /\ Len(trace_'.injected) = Len(input')
                   /\ \A i \in 1..Len(input') : \A c \in 1..2 :
                        trace_'.injected[i][c] =
                          trace_'.in_[i][c] * GainScale * GainScale)]_vars

\* A frozen GRANULAR block with feedback turned up and a feedback history:
\* freeze_lp_ is at 1, the gain 0, and the non-zero input went through the
\* injection unchanged.
C18_Witness ==
  /\ playback_mode_ = PLAYBACK_MODE_GRANULAR
  /\ parameters_.freeze
  /\ freeze_lp_ = SmoothSteps
  /\ trace_.parameters.feedback = MaxLevel
  /\ trace_.fb_gain = 0
  /\ Len(trace_.in_) = MaxSize
  /\ trace_.in_[1][1] # 0
  /\ trace_.injected[1][1] = trace_.in_[1][1] * GainScale * GainScale
  /\ mute_out_fade_ = SmoothSteps

\* C19: the wet amount of the pitch crossfade is 1 for a pitch of at most
\* -0.7 or at least 0.7, 0 for a pitch from -0.3 to 0.3, and linear over the
\* two bands of width 0.4 between; the OLIVERB site and the LOOPING_DELAY
\* pitch-shifter site give the same amount for the same pitch.  Pitch is in
\* units of 1 / PitchUnit and the amount in units of 1 / (0.4 * PitchUnit).
C19_PitchTrapezoid ==
  [][(/\ input' # NoBlock
      /\ ~bypass_
      /\ ~(silence_ \/ reset_buffers_
             \/ previous_playback_mode_ # playback_mode_))
       => LET x == trace_'.parameters.pitch
              distance == IF x < 0 THEN 0 - x ELSE x
              inner == (3 * PitchUnit) \div 10
              outer == (7 * PitchUnit) \div 10
              wet == IF distance >= outer THEN outer - inner
                     ELSE IF distance <= inner THEN 0
                     ELSE distance - inner
          IN /\ playback_mode_ = PLAYBACK_MODE_OLIVERB
                  => trace_'.pitch_shift_amount = wet
             /\ (/\ playback_mode_ = PLAYBACK_MODE_LOOPING_DELAY
                 /\ \E k \in 1..Len(trace_'.calls) :
                      trace_'.calls[k][1] = "pitch_shifter_")
                  => trace_'.dry_wet = wet]_vars

\* A LOOPING_DELAY block has run at pitch 0.5, inside the upper band: the
\* pitch shifter got half of the full wet amount.
C19_Witness ==
  /\ playback_mode_ = PLAYBACK_MODE_LOOPING_DELAY
  /\ trace_.calls # <<>>
  /\ trace_.parameters.pitch = PitchUnit \div 2
  /\ trace_.dry_wet = (2 * PitchUnit) \div 10
  /\ 2 * trace_.dry_wet = FullWet

\* C20 as stated: the sub-regions a structural pass of Prepare hands to the
\* collaborators (sample storage of each channel, diffuser line, reverb
\* line, correlator workspace, pitch-shifter workspace) are pairwise
\* non-overlapping.
C20_RegionsDisjoint ==
  [][(/\ prepare_path_'.branch = "structural"
      /\ load_pc \in {"idle", "prepare"})
       => LET r == prepare_path_'.regions
          IN \A k, l \in 1..Len(r) :
               k < l => ~(/\ r[k].base = r[l].base
                          /\ r[k].start < r[l].start + r[l].size
                          /\ r[l].start < r[k].start + r[k].size)]_vars

\* C20, amended: the sub-regions handed out are pairwise non-overlapping
\* but for the pitch shifter's, which starts where the correlator's starts;
\* the diffuser's, the reverb's and the correlator's follow one another from
\* the start of the workspace, which in stereo is the end of the sample
\* storage of channel 0 in the large region and in mono the start of the
\* small region.
C20_RegionsDisjointButPitchShifter ==
  [][(/\ prepare_path_'.branch = "structural"
      /\ load_pc \in {"idle", "prepare"})
       => LET r == prepare_path_'.regions
              shared == {<<"correlator_", 0>>, <<"pitch_shifter_", 0>>}
              first == IF num_channels_ = 1 THEN 0
                       ELSE SmallWords * BytesPerWord
          IN /\ \A k, l \in 1..Len(r) :
                  k < l =>
                    ((/\ r[k].base = r[l].base
                      /\ r[k].start < r[l].start + r[l].size
                      /\ r[l].start < r[k].start + r[k].size)
                       <=> {r[k].to, r[l].to} = shared)
             /\ Len(r) >= 4
             /\ r[1].to = <<"diffuser_", 0>>
             /\ r[2].to[1] \in {"reverb_", "oliverb_"}
             /\ r[3].to = <<"correlator_", 0>>
             /\ r[4].to = <<"pitch_shifter_", 0>>
             /\ \A k \in 1..4 : r[k].base = (IF num_channels_ = 1 THEN 1
                                             ELSE 0)
             /\ r[1].start = first
             /\ r[2].start = r[1].start + r[1].size
             /\ r[3].start = r[2].start + r[2].size
             /\ r[4].start = r[3].start
             /\ \A k \in 5..Len(r) :
                  /\ r[k].base = r[k].to[2]
                  /\ r[k].start = 0
                  /\ r[k].size > 0
                  /\ num_channels_ = 2 =>
                       r[k].size = SmallWords * BytesPerWord]_vars

\* A structural pass in stereo for a ring-buffer mode: six sub-regions, the
\* workspace behind the storage of channel 0 in the large region, and the
\* pitch shifter on the correlator's first word.
C20_Witness ==
  /\ prepare_path_.branch = "structural"
  /\ num_channels_ = 2
  /\ playback_mode_ = PLAYBACK_MODE_GRANULAR
  /\ Len(prepare_path_.regions) = 6
  /\ prepare_path_.regions[1].base = 0
  /\ prepare_path_.regions[1].start = prepare_path_.regions[5].size
  /\ prepare_path_.regions[5].to = <<"buffer_16_", 0>>
  /\ prepare_path_.regions[4].start = prepare_path_.regions[3].start

\* C21: the buffer blocks of a load are checked and copied against the
\* layout computed after the stored quality was applied and Prepare ran: one
\* 'buff' block per stored channel, over that channel's storage and of its
\* size; a load that succeeds has consumed as many buffer blocks as the
\* stream's channel count, whatever the channel count was at entry.
C21_LayoutOfStoredQuality ==
  LET channels == IF persistent_state_.quality % 2 = 1 THEN 1 ELSE 2
  IN /\ (load_pc \in {"check", "copy", "resync"} /\ load_i >= 1)
          => /\ num_channels_ = channels
             /\ Len(block) = 1 + channels
             /\ \A k \in 1..channels :
                  block[k + 1] =
                    [tag |-> TagBuff, data |-> "buffer_", index |-> k - 1,
                     size |-> IF channels = 1 THEN LargeWords * BytesPerWord
                              ELSE SmallWords * BytesPerWord]
             /\ copied \subseteq 0..channels
     /\ (load_pc = "done" /\ load_ret) => copied = 0..channels

\* A load begun in mono of a stream saved in stereo has succeeded: two buffer
\* blocks were copied.
C21_Witness ==
  /\ load_pc = "done"
  /\ load_ret
  /\ entry_channels = 1
  /\ num_channels_ = 2
  /\ copied = {0, 1, 2}

\* C22: Init leaves the prepared mode at PLAYBACK_MODE_LAST, and only a
\* Prepare moves it from there; until then every Process call with bypass_
\* clear writes zero to every output frame, whatever mode is selected, and
\* the Prepare that comes first takes the structural path: it partitions the
\* regions, initialises the engines of the mode and records the mode as
\* prepared.
C22_SilentUntilFirstPrepare ==
  /\ previous_playback_mode_ = PLAYBACK_MODE_LAST
  /\ [][previous_playback_mode_ = PLAYBACK_MODE_LAST
          => /\ (input' # NoBlock /\ ~bypass_)
                  => /\ Len(output') = Len(input')
                     /\ \A i \in 1..Len(output') : output'[i] = <<0, 0>>
             /\ prepare_path_'.branch # "none"
                  => /\ prepare_path_'.branch = "structural"
                     /\ prepare_path_'.regions # <<>>
                     /\ engines_' # engines_
                     /\ ~reset_buffers_'
                     /\ previous_playback_mode_' = playback_mode_
             /\ prepare_path_'.branch = "none"
                  => previous_playback_mode_' = PLAYBACK_MODE_LAST]_vars

\* No Prepare has run since Init, KAMMERL is selected, and a Process call
\* has turned non-zero input into silence.
C22_Witness ==
  /\ previous_playback_mode_ = PLAYBACK_MODE_LAST
  /\ playback_mode_ = PLAYBACK_MODE_KAMMERL
  /\ ~bypass_ /\ ~silence_
  /\ Len(input) = MaxSize
  /\ input[1] # <<0, 0>>
  /\ \A i \in 1..Len(output) : output[i] = <<0, 0>>

\* C23: a Prepare call made with the active mode equal to the prepared mode
\* and reset_buffers_ clear takes neither the benign nor the structural path:
\* it hands out no sub-region, leaves ring buffers, sample storage, engines,
\* filters, pitch shifter, freeze and every flag as they were, and does the
\* priming of the mode and nothing else.
C23_PrepareIdempotent ==
  [][(/\ prepare_path_'.branch # "none"
      /\ load_pc = "idle"
      /\ previous_playback_mode_ = playback_mode_
      /\ ~reset_buffers_)
       => (/\ prepare_path_'.branch = "unchanged"
           /\ prepare_path_'.regions = <<>>
           /\ prepare_path_'.priming =
                (IF playback_mode_ \in {PLAYBACK_MODE_SPECTRAL,
                                        PLAYBACK_MODE_SPECTRAL_CLOUD}
                   THEN "phase_vocoder_"
                 ELSE IF playback_mode_ \in {PLAYBACK_MODE_STRETCH,
                                             PLAYBACK_MODE_OLIVERB}
                   THEN "correlator_"
                 ELSE "none")
           /\ buffer_8_' = buffer_8_
           /\ buffer_16_' = buffer_16_
           /\ buffer_' = buffer_
           /\ engines_' = engines_
           /\ filters_' = filters_
           /\ pitch_shifter_' = pitch_shifter_
           /\ parameters_' = parameters_
           /\ cfgVars' = cfgVars
           /\ dspVars' = dspVars)]_vars

\* A Prepare of a frozen LOOPING_DELAY whose filters and pitch shifter have
\* run and whose storage holds audio: all of it is as it was.
C23_Witness ==
  /\ prepare_path_.branch = "unchanged"
  /\ playback_mode_ = PLAYBACK_MODE_LOOPING_DELAY
  /\ parameters_.freeze
  /\ filters_ = "run"
  /\ pitch_shifter_ = "run"
  /\ buffer_[0][1] = 1
  /\ buffer_16_[0] # 0

\* C24: a LoadPersistentData call that fails on the state block changes
\* nothing but silence_: neither its entry nor the failed check touches the
\* persistent state record, the active and the prepared mode, the channel
\* count and resolution, the ring buffers, their write heads and the sample
\* storage, or freeze; no block has been copied and the call returns false.
C24_FailedLoadChangesNothing ==
  [][(\/ load_pc = "idle" /\ load_pc' = "check"
      \/ load_pc = "check" /\ load_i = 0 /\ load_pc' = "done")
       => (/\ persistent_state_' = persistent_state_
           /\ playback_mode_' = playback_mode_
           /\ previous_playback_mode_' = previous_playback_mode_
           /\ num_channels_' = num_channels_
           /\ num_channels_' = entry_channels'
           /\ low_fidelity_' = low_fidelity_
           /\ buffer_8_' = buffer_8_
           /\ buffer_16_' = buffer_16_
           /\ buffer_' = buffer_
           /\ parameters_' = parameters_
           /\ reset_buffers_' = reset_buffers_
           /\ bypass_' = bypass_
           /\ engines_' = engines_
           /\ dspVars' = dspVars
           /\ load_pc' = "done" => (~load_ret' /\ copied' = {}))]_vars

\* A stereo stream with a damaged state block header was offered to a mono
\* processor prepared for STRETCH: the load has failed on the first block and
\* the processor is mono, unfrozen and its storage empty as before.
C24_Witness ==
  /\ load_pc = "done"
  /\ ~load_ret
  /\ load_i = 0
  /\ copied = {}
  /\ (data_[1] # TagStat \/ data_[2] # SizeofPersistentState)
  /\ data_[5] % 2 = 0
  /\ num_channels_ = 1
  /\ entry_channels = 1
  /\ playback_mode_ = PLAYBACK_MODE_STRETCH
  /\ previous_playback_mode_ = PLAYBACK_MODE_STRETCH
  /\ ~parameters_.freeze
  /\ buffer_[0][1] = 0
  /\ ~silence_

====
